---- MODULE Spec2Model ----
(***************************************************************************)
(* Replica metadata store of one region (PeerMeta) and its snapshot scan,  *)
(* src/raftserver/store/peer_meta.rs.                                      *)
(*                                                                         *)
(* The store holds a handle on the shared engine, the region descriptor    *)
(* and three cached fields.  The key encoder (keys.rs), the engine's typed *)
(* reads (engine.rs) and the snapshot's range scan are collaborators whose *)
(* code is outside peer_meta.rs; they are modelled from their contracts.   *)
(***************************************************************************)
EXTENDS Integers, Sequences, FiniteSets, TLC

(***************************************************************************)
(* Bounds of the model.                                                    *)
(***************************************************************************)
\* how far the writers advance the log counters past their bootstrap value
MaxAdvance == 2
\* how far the term of a compacted entry lies past the bootstrap term
MaxTermAdvance == 1

(***************************************************************************)
(* Option and Result values.                                               *)
(***************************************************************************)
None == <<>>
Some(v) == <<v>>

Ok(v) == [ok |-> TRUE, val |-> <<v>>, err |-> ""]
Err(e) == [ok |-> FALSE, val |-> <<>>, err |-> e]
\* the value carried by a successful result
Val(r) == r.val[1]
\* Result<()>'s success
Unit == "unit"

\* raftserver::other("un-initialized truncated state")
UNINIT_ERR == "un-initialized truncated state"
\* a u64 addition overflowed in a build with overflow checks: the call panics
PANIC_ERR == "panic: attempt to add with overflow"
\* errors an engine read or a snapshot scan can fail with
IOErrors == {"io: corruption", "io: timed out"}
NoFault == ""
Faults == {NoFault} \cup IOErrors

(***************************************************************************)
(* Program constants.                                                      *)
(***************************************************************************)
RAFT_INIT_LOG_TERM == 5
RAFT_INIT_LOG_INDEX == 10

(***************************************************************************)
(* Key space encoder (keys.rs).  Keys are byte strings, ordered            *)
(* lexicographically byte by byte.                                         *)
(***************************************************************************)
MIN_KEY == <<>>
LOCAL_PREFIX == 1
LOCAL_MAX == <<LOCAL_PREFIX + 1>>
REGION_ID_PREFIX == 2
REGION_META_PREFIX == 3
RAFT_APPLIED_INDEX_SUFFIX == 3
RAFT_LAST_INDEX_SUFFIX == 4
RAFT_TRUNCATED_STATE_SUFFIX == 5

\* A u64 is held as four 16-bit limbs, least significant first, so that the
\* whole range up to 2^64 - 1 and the overflow of + 1 are exact.
LIMB == 65536
U64(n) == <<n % LIMB, (n \div LIMB) % LIMB, 0, 0>>
U64_MAX == <<LIMB - 1, LIMB - 1, LIMB - 1, LIMB - 1>>

\* n + 1 on u64: the wrapped sum and whether the addition overflowed
RECURSIVE AddOneFrom(_, _)
AddOneFrom(n, i) ==
    IF i > Len(n) THEN [val |-> n, overflow |-> TRUE]
    ELSE IF n[i] < LIMB - 1 THEN [val |-> [n EXCEPT ![i] = n[i] + 1], overflow |-> FALSE]
    ELSE AddOneFrom([n EXCEPT ![i] = 0], i + 1)
u64_add_one(n) == AddOneFrom(n, 1)

\* a < b and a <= b on u64
U64Less(a, b) == \E i \in 1 .. 4 : a[i] < b[i] /\ \A j \in (i + 1) .. 4 : a[j] = b[j]
U64Leq(a, b) == a = b \/ U64Less(a, b)
\* the u64 values n with lo < n <= hi
RECURSIVE U64After(_, _)
U64After(lo, hi) ==
    IF ~U64Less(lo, hi) THEN {}
    ELSE LET n == u64_add_one(lo).val IN {n} \cup U64After(n, hi)

\* how the program was built: overflow checks on (debug) or off (release)
Builds == {"debug", "release"}

\* n as w bytes, most significant first
RECURSIVE BigEndian(_, _)
BigEndian(n, w) ==
    IF w = 0 THEN <<>> ELSE Append(BigEndian(n \div 256, w - 1), n % 256)

\* a < b in the engine's byte order
RECURSIVE KeyLess(_, _)
KeyLess(a, b) ==
    IF b = <<>> THEN FALSE
    ELSE IF a = <<>> THEN TRUE
    ELSE IF Head(a) # Head(b) THEN Head(a) < Head(b)
    ELSE KeyLess(Tail(a), Tail(b))

\* a u64 as 8 bytes, most significant first
be64(n) == BigEndian(n[4], 2) \o BigEndian(n[3], 2) \o BigEndian(n[2], 2) \o BigEndian(n[1], 2)

region_id_prefix(id) == <<LOCAL_PREFIX, REGION_ID_PREFIX>> \o be64(id)
region_meta_prefix(key) == <<LOCAL_PREFIX, REGION_META_PREFIX>> \o key
raft_applied_index_key(id) == Append(region_id_prefix(id), RAFT_APPLIED_INDEX_SUFFIX)
raft_last_index_key(id) == Append(region_id_prefix(id), RAFT_LAST_INDEX_SUFFIX)
raft_truncated_state_key(id) == Append(region_id_prefix(id), RAFT_TRUNCATED_STATE_SUFFIX)

(***************************************************************************)
(* The regions and the engine contents the model draws from.               *)
(***************************************************************************)
\* "m", "z": region boundaries; "a", "p": application keys; KeyLocal: a
\* non-empty boundary below LOCAL_MAX, inside the reserved namespaces
KeyLocal == <<LOCAL_PREFIX>>
KeyA == <<97>>
KeyM == <<109>>
KeyP == <<112>>
KeyZ == <<122>>

\* metapb::Region: id, start_key (inclusive), end_key (exclusive, empty = unset)
Regions ==
    { [id |-> U64(5), start_key |-> MIN_KEY, end_key |-> <<>>],
      [id |-> U64(5), start_key |-> MIN_KEY, end_key |-> KeyZ],
      [id |-> U64(7), start_key |-> KeyM, end_key |-> KeyZ],
      [id |-> U64(7), start_key |-> KeyLocal, end_key |-> KeyZ],
      [id |-> U64_MAX, start_key |-> KeyM, end_key |-> KeyZ] }

\* region ids with records in the engine: the modelled regions and their neighbours
RegionIds == {r.id : r \in Regions} \cup {u64_add_one(r.id).val : r \in Regions}

RaftKeys(id) ==
    {raft_applied_index_key(id), raft_last_index_key(id), raft_truncated_state_key(id)}
MetaKeys == {region_meta_prefix(r.start_key) : r \in Regions}
DataKeys == {KeyA, KeyM, KeyP}
Keys == UNION {RaftKeys(id) : id \in RegionIds} \cup MetaKeys \cup DataKeys

\* RaftTruncatedState: index and term are u64
TruncatedState(i, t) == [index |-> i, term |-> t]

\* The engine when the replica of region r is constructed: the records of the
\* neighbouring region id, r's descriptor and the application data of the shared
\* engine; nothing is persisted yet for r's own raft state.
BootstrapEngine(r) ==
    LET neighbour == u64_add_one(r.id).val
    IN
    [k \in Keys |->
        IF k = raft_applied_index_key(neighbour) THEN Some(U64(3))
        ELSE IF k = raft_last_index_key(neighbour) THEN Some(U64(4))
        ELSE IF k = raft_truncated_state_key(neighbour)
            THEN Some(TruncatedState(U64(2), U64(1)))
        ELSE IF k = region_meta_prefix(r.start_key) THEN Some("descriptor")
        ELSE IF k \in DataKeys THEN Some("data")
        ELSE None]

\* the u64 before the largest
U64_NEAR_MAX == [U64_MAX EXCEPT ![1] = LIMB - 2]

\* The engine of a replica whose log was compacted up to index i and not
\* appended to since: the truncated state and the applied index are persisted
\* at i, no last index is.
TruncatedEngine(r, i) ==
    LET e == BootstrapEngine(r)
    IN  [k \in Keys |->
            IF k = raft_truncated_state_key(r.id)
                THEN Some(TruncatedState(i, U64(RAFT_INIT_LOG_TERM)))
            ELSE IF k = raft_applied_index_key(r.id) THEN Some(i)
            ELSE e[k]]

EmptyBatch == [k \in Keys |-> None]

(***************************************************************************)
(* State.                                                                  *)
(***************************************************************************)
VARIABLES
    engine,           \* PeerMeta.engine: the committed contents of the shared DB
    region_id,        \* PeerMeta.region_id
    region,           \* PeerMeta.region
    last_index,       \* PeerMeta.last_index
    applied_index,    \* PeerMeta.applied_index
    truncated_state,  \* PeerMeta.truncated_state: Option<RaftTruncatedState>
    batch,            \* the apply loop's in-flight write batch (uncommitted writes)
    loaded,           \* value load_truncated_state returned that the caller holds
    build,            \* how the program was built (decides what an overflow does)
    ret,              \* the last call: operation, result, fault injected, view supplied
    snap,             \* snap_scan_region's snapshot: the engine contents it froze
    pc,               \* snap_scan_region's position: idle, loop, scan, done, panicked
    ri,               \* index of the range the for loop is at
    todo,             \* keys of the current range the iterator has not reached yet
    log,              \* what happened so far: scans started and visitor invocations
    result            \* what snap_scan_region returned

metaVars == <<engine, region_id, region, last_index, applied_index, truncated_state,
              build>>
storeVars == <<metaVars, batch, loaded, ret>>
scanVars == <<snap, pc, ri, todo, log, result>>
vars == <<engine, region_id, region, last_index, applied_index, truncated_state,
          build, batch, loaded, ret, snap, pc, ri, todo, log, result>>

\* a call's record; a step of a writer or of the caller records its own name
Call(op, res, fault, view) == [op |-> op, res |-> res, fault |-> fault, view |-> view]
NoCall(op) == Call(op, Ok(Unit), NoFault, EmptyBatch)

(***************************************************************************)
(* Engine reads (engine.rs, Retriever): a typed read of one key of a view. *)
(* fault is the I/O error the read fails with, NoFault when it succeeds.   *)
(***************************************************************************)
get_u64(db, key, fault) == IF fault # NoFault THEN Err(fault) ELSE Ok(db[key])
get_msg(db, key, fault) == IF fault # NoFault THEN Err(fault) ELSE Ok(db[key])

\* the view a write batch gives: its own pending writes over the committed engine
BatchView == [k \in Keys |-> IF batch[k] # None THEN batch[k] ELSE engine[k]]
Views == {engine, BatchView}

(***************************************************************************)
(* PeerMeta's operations.                                                  *)
(***************************************************************************)
is_initialized == Len(region.end_key) > 0

get_truncated_state ==
    IF truncated_state = None THEN Err(UNINIT_ERR) ELSE Ok(truncated_state[1])

\* a first index that is the truncated index itself
get_first_index_no_increment ==
    LET state == get_truncated_state
    IN  IF state.ok THEN Ok(Val(state).index) ELSE state

\* state.get_index() + 1 is a u64 addition: at the largest index it panics in
\* a debug build and wraps to 0 in a release build.
get_first_index ==
    LET state == get_truncated_state
    IN  IF ~state.ok THEN state
        ELSE LET next == u64_add_one(Val(state).index)
             IN  IF next.overflow /\ build = "debug" THEN Err(PANIC_ERR)
                 ELSE Ok(next.val)

\* a load whose default ignores whether the region is initialized
load_truncated_state_always_init(fault) ==
    LET res == get_msg(engine, raft_truncated_state_key(region_id), fault)
    IN  IF ~res.ok THEN res
        ELSE IF Val(res) # None THEN Ok(Val(res)[1])
        ELSE Ok(TruncatedState(U64(RAFT_INIT_LOG_INDEX), U64(RAFT_INIT_LOG_TERM)))

load_truncated_state(fault) ==
    LET res == get_msg(engine, raft_truncated_state_key(region_id), fault)
    IN  IF ~res.ok THEN res
        ELSE IF Val(res) # None THEN Ok(Val(res)[1])
        ELSE IF is_initialized
            THEN Ok(TruncatedState(U64(RAFT_INIT_LOG_INDEX), U64(RAFT_INIT_LOG_TERM)))
        ELSE Ok(TruncatedState(U64(0), U64(0)))

\* a fallback that returns the first index instead of the truncated index
load_last_index_plus_one(fault) ==
    LET n == get_u64(engine, raft_last_index_key(region_id), fault)
    IN  IF ~n.ok THEN n
        ELSE IF Val(n) # None THEN Ok(Val(n)[1])
        ELSE LET state == get_truncated_state
             IN  IF state.ok THEN Ok(u64_add_one(Val(state).index).val) ELSE state

load_last_index(fault) ==
    LET n == get_u64(engine, raft_last_index_key(region_id), fault)
    IN  IF ~n.ok THEN n
        ELSE IF Val(n) # None THEN Ok(Val(n)[1])
        ELSE LET state == get_truncated_state
             IN  IF state.ok THEN Ok(Val(state).index) ELSE state

\* a load that reads the store's own engine instead of the supplied view
load_applied_index_own_engine(db, fault) ==
    LET applied == IF is_initialized THEN U64(RAFT_INIT_LOG_INDEX) ELSE U64(0)
        n == get_u64(engine, raft_applied_index_key(region_id), fault)
    IN  IF ~n.ok THEN n
        ELSE IF Val(n) # None THEN Ok(Val(n)[1])
        ELSE Ok(applied)

load_applied_index(db, fault) ==
    LET applied == IF is_initialized THEN U64(RAFT_INIT_LOG_INDEX) ELSE U64(0)
        n == get_u64(db, raft_applied_index_key(region_id), fault)
    IN  IF ~n.ok THEN n
        ELSE IF Val(n) # None THEN Ok(Val(n)[1])
        ELSE Ok(applied)

(***************************************************************************)
(* Calls of the store's operations.  Every operation takes &self: the call *)
(* leaves the engine and the fields alone and hands its result back.       *)
(***************************************************************************)
GetTruncatedState ==
    /\ ret' = Call("get_truncated_state", get_truncated_state, NoFault, EmptyBatch)
    /\ UNCHANGED <<metaVars, batch, loaded, scanVars>>

GetFirstIndex ==
    /\ ret' = Call("get_first_index", get_first_index, NoFault, EmptyBatch)
    /\ UNCHANGED <<metaVars, batch, loaded, scanVars>>

\* a load that caches what it returns in the field
LoadTruncatedState_Caching ==
    \E fault \in Faults :
        LET res == load_truncated_state(fault)
        IN  /\ ret' = Call("load_truncated_state", res, fault, EmptyBatch)
            /\ loaded' = IF res.ok THEN Some(Val(res)) ELSE loaded
            /\ truncated_state' = IF res.ok THEN Some(Val(res)) ELSE truncated_state
            /\ UNCHANGED <<build, engine, region_id, region, last_index, applied_index,
                           batch, scanVars>>

\* a load that persists the default it synthesized
LoadTruncatedState_Persisting ==
    \E fault \in Faults :
        LET res == load_truncated_state(fault)
            key == raft_truncated_state_key(region_id)
        IN  /\ ret' = Call("load_truncated_state", res, fault, EmptyBatch)
            /\ loaded' = IF res.ok THEN Some(Val(res)) ELSE loaded
            /\ engine' = IF res.ok /\ engine[key] = None
                             THEN [engine EXCEPT ![key] = Some(Val(res))]
                             ELSE engine
            /\ UNCHANGED <<build, region_id, region, last_index, applied_index, truncated_state,
                           batch, scanVars>>

LoadTruncatedState ==
    \E fault \in Faults :
        LET res == load_truncated_state(fault)
        IN  /\ ret' = Call("load_truncated_state", res, fault, EmptyBatch)
            /\ loaded' = IF res.ok THEN Some(Val(res)) ELSE loaded
            /\ UNCHANGED <<metaVars, batch, scanVars>>

LoadLastIndex ==
    \E fault \in Faults :
        /\ ret' = Call("load_last_index", load_last_index(fault), fault, EmptyBatch)
        /\ UNCHANGED <<metaVars, batch, loaded, scanVars>>

LoadAppliedIndex ==
    \E fault \in Faults, db \in Views :
        /\ ret' = Call("load_applied_index", load_applied_index(db, fault), fault, db)
        /\ UNCHANGED <<metaVars, batch, loaded, scanVars>>

(***************************************************************************)
(* The caller and the three writers of a region (the code that owns the    *)
(* PeerMeta): the caller installs a loaded truncated state in the pub      *)
(* field; the append path advances the persisted last index, the apply     *)
(* loop stages the next applied index in its write batch and commits it,   *)
(* the compaction path persists a newer truncated state.                   *)
(***************************************************************************)
InstallTruncatedState ==
    /\ loaded # None
    /\ truncated_state' = loaded
    /\ loaded' = None
    /\ ret' = NoCall("install")
    /\ UNCHANGED <<build, engine, region_id, region, last_index, applied_index, batch, scanVars>>

\* The node restarts and constructs the replica again over the same engine: the
\* cached field is absent again and the uncommitted batch is gone.
Restart ==
    /\ truncated_state # None
    /\ truncated_state' = None
    /\ loaded' = None
    /\ batch' = EmptyBatch
    /\ ret' = NoCall("new")
    /\ UNCHANGED <<build, engine, region_id, region, last_index, applied_index, scanVars>>

\* the counters' value before anything is written
BootstrapIndex == IF is_initialized THEN RAFT_INIT_LOG_INDEX ELSE 0
Terms == {U64(t) : t \in RAFT_INIT_LOG_TERM .. RAFT_INIT_LOG_TERM + MaxTermAdvance}
\* a counter can advance past n: n is not the largest u64, and it is less
\* than MaxAdvance past where the counters started or next to the largest u64
CanAdvance(n) ==
    /\ ~u64_add_one(n).overflow
    /\ U64Less(n, U64(BootstrapIndex + MaxAdvance)) \/ U64Leq(U64_NEAR_MAX, n)
\* the largest index the compaction path reaches from index n
CompactLimit(n) ==
    IF U64Leq(U64_NEAR_MAX, n) THEN U64_MAX ELSE U64(BootstrapIndex + MaxAdvance)

AppendEntries ==
    LET last == load_last_index(NoFault)
    IN  /\ last.ok
        /\ CanAdvance(Val(last))
        /\ engine' = [engine EXCEPT ![raft_last_index_key(region_id)] =
                                        Some(u64_add_one(Val(last)).val)]
        /\ ret' = NoCall("append")
        /\ UNCHANGED <<build, region_id, region, last_index, applied_index, truncated_state,
                       batch, loaded, scanVars>>

\* The three writers are independent: none waits for another's counter.
ApplyStage ==
    LET applied == load_applied_index(engine, NoFault)
    IN  /\ batch = EmptyBatch
        /\ CanAdvance(Val(applied))
        /\ batch' = [batch EXCEPT ![raft_applied_index_key(region_id)] =
                                      Some(u64_add_one(Val(applied)).val)]
        /\ ret' = NoCall("apply")
        /\ UNCHANGED <<metaVars, loaded, scanVars>>

ApplyCommit ==
    /\ batch # EmptyBatch
    /\ engine' = BatchView
    /\ batch' = EmptyBatch
    /\ ret' = NoCall("commit")
    /\ UNCHANGED <<build, region_id, region, last_index, applied_index, truncated_state,
                   loaded, scanVars>>

\* Compaction persists a truncated state of a larger index and deletes the
\* entries up to it; when that empties the log (the last index is not above
\* the new truncated index) no last index stays persisted.
Compact ==
    LET state == load_truncated_state(NoFault)
        last == engine[raft_last_index_key(region_id)]
    IN  \E i \in U64After(Val(state).index, CompactLimit(Val(state).index)), t \in Terms :
            /\ engine' = [k \in Keys |->
                              IF k = raft_truncated_state_key(region_id)
                                  THEN Some(TruncatedState(i, t))
                              ELSE IF /\ k = raft_last_index_key(region_id)
                                      /\ last # None
                                      /\ U64Leq(last[1], i)
                                  THEN None
                              ELSE engine[k]]
            /\ ret' = NoCall("compact")
            /\ UNCHANGED <<build, region_id, region, last_index, applied_index, truncated_state,
                           batch, loaded, scanVars>>

(***************************************************************************)
(* The metadata store's specification.                                     *)
(***************************************************************************)
\* the store's operations depend on the region through its id and on whether
\* end_key is empty: an unassigned and an assigned region of one id
Init ==
    /\ region \in {r \in Regions : r.start_key = MIN_KEY}
    /\ region_id = region.id
    /\ build \in Builds
    /\ engine \in {BootstrapEngine(region)} \cup
                   {TruncatedEngine(region, i) :
                        i \in IF Len(region.end_key) > 0 THEN {U64_NEAR_MAX, U64_MAX} ELSE {}}
    /\ last_index = U64(0)
    /\ applied_index = U64(0)
    /\ truncated_state = None
    /\ batch = EmptyBatch
    /\ loaded = None
    /\ ret = NoCall("new")
    /\ snap = EmptyBatch
    /\ pc = "idle"
    /\ ri = 0
    /\ todo = <<>>
    /\ log = <<>>
    /\ result = Ok(Unit)

Next ==
    \/ GetTruncatedState
    \/ GetFirstIndex
    \/ LoadTruncatedState
    \/ LoadLastIndex
    \/ LoadAppliedIndex
    \/ InstallTruncatedState
    \/ AppendEntries
    \/ ApplyStage
    \/ ApplyCommit
    \/ Compact
    \/ Restart

Spec == Init /\ [][Next]_vars

(***************************************************************************)
(* Snapshot range partitioner and scan.                                    *)
(***************************************************************************)
\* region_key_ranges does not return: region_id + 1 overflowed in a debug build
Panic == <<>>

\* ranges whose data range starts at start_key also when that is the minimum key
region_key_ranges_of_no_skip(id, r, b) ==
    LET next == u64_add_one(id)
    IN  IF next.overflow /\ b = "debug" THEN Panic
        ELSE << <<region_id_prefix(id), region_id_prefix(next.val)>>,
                <<region_meta_prefix(r.start_key), region_meta_prefix(r.end_key)>>,
                <<r.start_key, r.end_key>> >>

\* ranges whose local range runs over the records of the next region id too
region_key_ranges_of_two_ids(id, r, b) ==
    LET data_start_key == IF r.start_key = MIN_KEY THEN LOCAL_MAX ELSE r.start_key
        next == u64_add_one(id)
    IN  IF next.overflow /\ b = "debug" THEN Panic
        ELSE << <<region_id_prefix(id), region_id_prefix(u64_add_one(next.val).val)>>,
                <<region_meta_prefix(r.start_key), region_meta_prefix(r.end_key)>>,
                <<data_start_key, r.end_key>> >>

\* region_key_ranges of the replica (id, r) in build b.  region_id + 1 is a u64
\* addition: at the largest id it panics in a debug build and wraps in a
\* release build.
region_key_ranges_of(id, r, b) ==
    LET data_start_key == IF r.start_key = MIN_KEY THEN LOCAL_MAX ELSE r.start_key
        next == u64_add_one(id)
    IN  IF next.overflow /\ b = "debug" THEN Panic
        ELSE << <<region_id_prefix(id), region_id_prefix(next.val)>>,
                <<region_meta_prefix(r.start_key), region_meta_prefix(r.end_key)>>,
                <<data_start_key, r.end_key>> >>

\* the three ranges in another order: data first
region_key_ranges_data_first ==
    LET rs == region_key_ranges_of(region_id, region, build)
    IN  IF rs = Panic THEN Panic ELSE <<rs[3], rs[1], rs[2]>>

region_key_ranges == region_key_ranges_of(region_id, region, build)

\* the keys of S in ascending byte order
RECURSIVE SortKeys(_)
SortKeys(S) ==
    IF S = {} THEN <<>>
    ELSE LET m == CHOOSE x \in S : \A y \in S \ {x} : KeyLess(x, y)
         IN  <<m>> \o SortKeys(S \ {m})

\* Snapshot::scan's iteration: the keys of db in [start, end), ascending
scan_keys(db, start, end) ==
    SortKeys({k \in Keys : db[k] # None /\ ~KeyLess(k, start) /\ KeyLess(k, end)})

\* Snapshot::scan's return after the visitor returned v for an entry: the
\* visitor's error, or Ok(()) when it asked to stop; "next" when it goes on
\* to the following entry.
ScanNext == "next"
scan_after_visit(v) ==
    IF ~v.ok THEN v ELSE IF Val(v) THEN Ok(ScanNext) ELSE Ok(Unit)

\* what the visitor can answer: continue, stop, fail
VisitorResults == {Ok(TRUE), Ok(FALSE), Err("visitor: failed")}

\* a loop body that drops the scan's result
snap_scan_region_ignoring_result(r) ==
    [pc |-> "loop", ri |-> ri + 1, result |-> result]

\* snap_scan_region's loop body after snap.scan returned r: try! returns the
\* error, anything else goes on to the next range
snap_scan_region_after_scan(r) ==
    IF r.ok THEN [pc |-> "loop", ri |-> ri + 1, result |-> result]
    ELSE [pc |-> "done", ri |-> ri, result |-> r]

Event(ev, range, key, value, res) ==
    [ev |-> ev, range |-> range,
     start |-> region_key_ranges[range][1], end |-> region_key_ranges[range][2],
     key |-> key, value |-> value, res |-> res]

\* the caller takes a snapshot of the engine and calls snap_scan_region
SnapScanRegion ==
    /\ pc = "idle"
    /\ snap' = engine
    /\ pc' = IF region_key_ranges = Panic THEN "panicked" ELSE "loop"
    /\ ri' = 1
    /\ UNCHANGED <<storeVars, todo, log, result>>

\* a scan that iterates the live engine instead of the snapshot
ScanRange_LiveEngine ==
    /\ pc = "loop"
    /\ ri <= Len(region_key_ranges)
    /\ \E fault \in Faults :
          LET r == region_key_ranges[ri]
              seek == IF fault = NoFault THEN Ok(ScanNext) ELSE Err(fault)
              after == snap_scan_region_after_scan(seek)
          IN  /\ log' = Append(log, Event("scan", ri, <<>>, None, seek))
              /\ IF seek.ok
                    THEN /\ todo' = scan_keys(engine, r[1], r[2])
                         /\ pc' = "scan"
                         /\ UNCHANGED <<ri, result>>
                    ELSE /\ todo' = <<>>
                         /\ pc' = after.pc
                         /\ ri' = after.ri
                         /\ result' = after.result
    /\ UNCHANGED <<storeVars, snap>>

\* the for loop starts the scan of the next range; the seek can fail
ScanRange ==
    /\ pc = "loop"
    /\ ri <= Len(region_key_ranges)
    /\ \E fault \in Faults :
          LET r == region_key_ranges[ri]
              seek == IF fault = NoFault THEN Ok(ScanNext) ELSE Err(fault)
              after == snap_scan_region_after_scan(seek)
          IN  /\ log' = Append(log, Event("scan", ri, <<>>, None, seek))
              /\ IF seek.ok
                    THEN /\ todo' = scan_keys(snap, r[1], r[2])
                         /\ pc' = "scan"
                         /\ UNCHANGED <<ri, result>>
                    ELSE /\ todo' = <<>>
                         /\ pc' = after.pc
                         /\ ri' = after.ri
                         /\ result' = after.result
    /\ UNCHANGED <<storeVars, snap>>

\* the scan hands the next entry of the range to the visitor
Visit ==
    /\ pc = "scan"
    /\ todo # <<>>
    /\ \E v \in VisitorResults :
          LET r == scan_after_visit(v)
              after == snap_scan_region_after_scan(r)
          IN  /\ log' = Append(log, Event("visit", ri, Head(todo), snap[Head(todo)], v))
              /\ IF r = Ok(ScanNext)
                    THEN /\ todo' = Tail(todo)
                         /\ UNCHANGED <<pc, ri, result>>
                    ELSE /\ todo' = <<>>
                         /\ pc' = after.pc
                         /\ ri' = after.ri
                         /\ result' = after.result
    /\ UNCHANGED <<storeVars, snap>>

\* the iterator fails between two entries
ScanFails ==
    /\ pc = "scan"
    /\ \E e \in IOErrors :
          LET after == snap_scan_region_after_scan(Err(e))
          IN  /\ log' = Append(log, Event("iterate", ri, <<>>, None, Err(e)))
              /\ todo' = <<>>
              /\ pc' = after.pc
              /\ ri' = after.ri
              /\ result' = after.result
    /\ UNCHANGED <<storeVars, snap>>

\* the range is exhausted: scan returns Ok(())
ScanEnds ==
    /\ pc = "scan"
    /\ todo = <<>>
    /\ LET after == snap_scan_region_after_scan(Ok(Unit))
       IN  /\ pc' = after.pc
           /\ ri' = after.ri
           /\ result' = after.result
    /\ UNCHANGED <<storeVars, snap, todo, log>>

\* the loop is over: Ok(())
SnapScanReturns ==
    /\ pc = "loop"
    /\ ri > Len(region_key_ranges)
    /\ pc' = "done"
    /\ result' = Ok(Unit)
    /\ UNCHANGED <<storeVars, snap, ri, todo, log>>

\* The engine of region r after the writers ran n rounds past bootstrap:
\* nothing persisted (0), one entry appended (1), two entries appended, one
\* applied and compacted (2).
PersistedEngine(r, n) ==
    LET b == IF Len(r.end_key) > 0 THEN RAFT_INIT_LOG_INDEX ELSE 0
        e == BootstrapEngine(r)
    IN  [k \in Keys |->
            IF n >= 1 /\ k = raft_last_index_key(r.id) THEN Some(U64(b + n))
            ELSE IF n >= 2 /\ k = raft_applied_index_key(r.id) THEN Some(U64(b + 1))
            ELSE IF n >= 2 /\ k = raft_truncated_state_key(r.id)
                THEN Some(TruncatedState(U64(b + 1), U64(RAFT_INIT_LOG_TERM)))
            ELSE e[k]]

InitScan ==
    /\ region \in Regions
    /\ region_id = region.id
    /\ build \in Builds
    /\ engine \in {PersistedEngine(region, n) : n \in 0 .. MaxAdvance}
    /\ last_index = U64(0)
    /\ applied_index = U64(0)
    /\ truncated_state = None
    /\ batch = EmptyBatch
    /\ loaded = None
    /\ ret = NoCall("new")
    /\ snap = EmptyBatch
    /\ pc = "idle"
    /\ ri = 0
    /\ todo = <<>>
    /\ log = <<>>
    /\ result = Ok(Unit)

NextScan ==
    \/ SnapScanRegion
    \/ ScanRange
    \/ Visit
    \/ ScanFails
    \/ ScanEnds
    \/ SnapScanReturns

SpecScan == InitScan /\ [][NextScan]_vars

(***************************************************************************)
(* The scan while the region's writers go on committing to the live        *)
(* engine: the append, apply and compaction writers and a data delete of   *)
(* the apply loop.                                                         *)
(***************************************************************************)
\* the apply loop deletes an application key
DeleteData ==
    /\ engine[KeyP] # None
    /\ engine' = [engine EXCEPT ![KeyP] = None]
    /\ ret' = NoCall("delete")
    /\ UNCHANGED <<build, region_id, region, last_index, applied_index, truncated_state,
                   batch, loaded, scanVars>>

\* a bootstrapped region whose log has one entry past the bootstrap index
InitScanLive ==
    /\ InitScan
    /\ region.id = U64(7)
    /\ region.start_key = KeyM
    /\ engine = PersistedEngine(region, 1)
    /\ build = "release"

\* the writers act between and during the range scans
ScanRunning == pc \in {"loop", "scan"}
LiveAppendEntries == ScanRunning /\ AppendEntries
LiveApplyStage == ScanRunning /\ ApplyStage
LiveApplyCommit == ScanRunning /\ ApplyCommit
LiveCompact == ScanRunning /\ Compact
LiveDeleteData == ScanRunning /\ DeleteData

NextScanLive ==
    \/ NextScan
    \/ LiveAppendEntries
    \/ LiveApplyStage
    \/ LiveApplyCommit
    \/ LiveCompact
    \/ LiveDeleteData

SpecScanLive == InitScanLive /\ [][NextScanLive]_vars

(***************************************************************************)
(* The range partitioner as a function of the replica: region_key_ranges   *)
(* applied to region ids over the whole u64 range and to boundary keys.    *)
(***************************************************************************)
\* 2^64 - 2
KeyIds == {U64(0), U64(5), U64(255), U64(LIMB - 1), U64_NEAR_MAX, U64_MAX}
KeyRegions ==
    {r \in [id : KeyIds, start_key : {MIN_KEY, KeyLocal, KeyA, KeyM},
             end_key : {<<>>, KeyM, KeyZ}] :
        r.end_key = <<>> \/ KeyLess(r.start_key, r.end_key)}


RegionKeyRanges ==
    /\ ret.op # "region_key_ranges"
    /\ ret' = Call("region_key_ranges",
                   IF region_key_ranges = Panic THEN Err(PANIC_ERR) ELSE Ok(region_key_ranges),
                   NoFault, EmptyBatch)
    /\ UNCHANGED <<metaVars, batch, loaded, scanVars>>

InitKeys ==
    /\ region \in KeyRegions
    /\ region_id = region.id
    /\ build \in Builds
    /\ engine = EmptyBatch
    /\ last_index = U64(0)
    /\ applied_index = U64(0)
    /\ truncated_state = None
    /\ batch = EmptyBatch
    /\ loaded = None
    /\ ret = NoCall("new")
    /\ snap = EmptyBatch
    /\ pc = "idle"
    /\ ri = 0
    /\ todo = <<>>
    /\ log = <<>>
    /\ result = Ok(Unit)

NextKeys == RegionKeyRanges

SpecKeys == InitKeys /\ [][NextKeys]_vars

(***************************************************************************)
(* Two regions on the shared engine: this replica's loads while the        *)
(* writers of another region, of a different id and a key range that does  *)
(* not overlap this one's, commit their write batches.                     *)
(***************************************************************************)
\* the regions of the store: an unassigned one, one from the minimum key, and
\* two above it, of the next id and of the largest id
RegionPool ==
    { [id |-> U64(5), start_key |-> MIN_KEY, end_key |-> <<>>],
      [id |-> U64(5), start_key |-> MIN_KEY, end_key |-> KeyM],
      [id |-> u64_add_one(U64(5)).val, start_key |-> KeyM, end_key |-> KeyZ],
      [id |-> U64_MAX, start_key |-> KeyM, end_key |-> KeyZ] }

\* [start_key, end_key) of a and of b share no key
NonOverlapping(a, b) ==
    \/ ~KeyLess(a.start_key, a.end_key)
    \/ ~KeyLess(b.start_key, b.end_key)
    \/ ~KeyLess(b.start_key, a.end_key)
    \/ ~KeyLess(a.start_key, b.end_key)

OtherRegions(r) == {o \in RegionPool : o.id # r.id /\ NonOverlapping(r, o)}

\* the keys a region's writers write: its raft records, its descriptor, its data
KindKeys(o, kind) ==
    IF kind = "raft" THEN RaftKeys(o.id)
    ELSE IF kind = "meta" THEN {region_meta_prefix(o.start_key)}
    ELSE {k \in DataKeys : ~KeyLess(k, o.start_key) /\ KeyLess(k, o.end_key)}
Kinds == {"raft", "meta", "data"}
KeysOfRegion(o) == UNION {KindKeys(o, kind) : kind \in Kinds}

\* the value the other region's writers leave under key k
Rewritten(k) ==
    IF \E id \in RegionIds : k = raft_truncated_state_key(id)
        THEN Some(TruncatedState(U64(RAFT_INIT_LOG_INDEX + MaxAdvance + 1),
                                 U64(RAFT_INIT_LOG_TERM + 1)))
    ELSE IF \E id \in RegionIds : k = raft_applied_index_key(id)
        THEN Some(U64(RAFT_INIT_LOG_INDEX + MaxAdvance + 2))
    ELSE IF \E id \in RegionIds : k = raft_last_index_key(id)
        THEN Some(U64(RAFT_INIT_LOG_INDEX + MaxAdvance + 3))
    ELSE IF k \in MetaKeys THEN Some("descriptor of the other region")
    ELSE Some("data of the other region")

\* a write batch of another region is committed to the shared engine
OtherRegionWrite ==
    /\ \E o \in OtherRegions(region), kind \in Kinds :
          LET ks == KindKeys(o, kind)
          IN  /\ \E k \in ks : engine[k] # Rewritten(k)
              /\ engine' = [k \in Keys |-> IF k \in ks THEN Rewritten(k) ELSE engine[k]]
    /\ ret' = NoCall("other_region_write")
    /\ UNCHANGED <<build, region_id, region, last_index, applied_index, truncated_state,
                   batch, loaded, scanVars>>

InitRegions ==
    /\ region \in RegionPool
    /\ region_id = region.id
    /\ build \in Builds
    /\ engine \in {PersistedEngine(region, n) : n \in {0, 2}}
    /\ last_index = U64(0)
    /\ applied_index = U64(0)
    /\ truncated_state = None
    /\ batch = EmptyBatch
    /\ loaded = None
    /\ ret = NoCall("new")
    /\ snap = EmptyBatch
    /\ pc = "idle"
    /\ ri = 0
    /\ todo = <<>>
    /\ log = <<>>
    /\ result = Ok(Unit)

NextRegions ==
    \/ LoadTruncatedState
    \/ LoadLastIndex
    \/ LoadAppliedIndex
    \/ RegionKeyRanges
    \/ OtherRegionWrite

SpecRegions == InitRegions /\ [][NextRegions]_vars

\* k lies in the half-open range r = <<start, end>>
InRange(k, r) == ~KeyLess(k, r[1]) /\ KeyLess(k, r[2])

\* C13: region_key_ranges returns the three ranges
\* [region_id_prefix(id), region_id_prefix(id + 1)),
\* [region_meta_prefix(start_key), region_meta_prefix(end_key)), [data_start, end_key),
\* in this order, with data_start = LOCAL_MAX exactly when start_key is the
\* minimum key and start_key otherwise.
C13_ThreeRanges ==
    ret.op = "region_key_ranges" =>
        ret.res =
            Ok(<< <<region_id_prefix(region.id), region_id_prefix(u64_add_one(region.id).val)>>,
                  <<region_meta_prefix(region.start_key), region_meta_prefix(region.end_key)>>,
                  <<IF region.start_key = <<>> THEN LOCAL_MAX ELSE region.start_key,
                    region.end_key>> >>)

\* C15: for every u64 region id, the largest included, region_key_ranges
\* returns a first range with region_id_prefix(id) < region_id_prefix(id + 1)
\* that holds the raft keys of this id and none of another id; id + 1 neither
\* overflows nor wraps.
C15_LocalRangeWellOrdered ==
    ret.op = "region_key_ranges" =>
        /\ ret.res.ok
        /\ ~u64_add_one(region.id).overflow
        /\ KeyLess(Val(ret.res)[1][1], Val(ret.res)[1][2])
        /\ \A k \in RaftKeys(region.id) : InRange(k, Val(ret.res)[1])
        /\ \A id \in KeyIds \ {region.id} :
              \A k \in RaftKeys(id) : ~InRange(k, Val(ret.res)[1])

(***************************************************************************)
(* Properties of the snapshot scan, checked under SpecScan.                *)
(***************************************************************************)
\* the namespace a range starts in, read off its start key
RangeKind(start) ==
    IF Len(start) >= 2 /\ start[1] = LOCAL_PREFIX /\ start[2] = REGION_ID_PREFIX
        THEN "local"
    ELSE IF Len(start) >= 2 /\ start[1] = LOCAL_PREFIX /\ start[2] = REGION_META_PREFIX
        THEN "meta"
    ELSE "data"
KindRank(kind) == CASE kind = "local" -> 1 [] kind = "meta" -> 2 [] OTHER -> 3
IsScanEvent(e) == e.ev = "scan"
IsStop(e) == e.ev = "visit" /\ e.res = Ok(FALSE)

\* C1: once the visitor has signalled stop during the scan of the first range
\* (local metadata), no scan of a later range starts and the visitor is not
\* invoked for an entry of a later range.
C1_StopSkipsLaterRanges ==
    \A i, j \in DOMAIN log :
        (i < j /\ IsStop(log[i]) /\ RangeKind(log[i].start) = "local") =>
            RangeKind(log[j].start) = "local"

\* C2: a failed range scan (the snapshot's or the visitor's error) is the last
\* thing snap_scan_region does: it returns that very error, starts no further
\* scan, and keeps what the visitor was handed before; it returns Ok only when
\* no scan failed.
C2_ErrorPropagates ==
    LET failed == {i \in DOMAIN log : ~log[i].res.ok}
    IN  /\ \A i \in failed : i = Len(log) /\ pc = "done" /\ result = Err(log[i].res.err)
        /\ (pc = "done" /\ result.ok) => failed = {}
        /\ (pc = "done" /\ ~result.ok) => failed # {}

\* a scan failed in the second range after the visitor accepted entries of the first
C2_Witness ==
    /\ pc = "done"
    /\ ~result.ok
    /\ Len(log) >= 3
    /\ RangeKind(log[Len(log)].start) = "meta"
    /\ \E i \in DOMAIN log : log[i].ev = "visit" /\ log[i].res = Ok(TRUE)

\* C3: the ranges are scanned in the order local metadata, region-meta,
\* region-data, each at most once, and whatever happens for an earlier range
\* (its scan, its visitor invocations) precedes the start of a later range's scan.
C3_FixedOrder ==
    LET scans == SelectSeq(log, IsScanEvent)
    IN  /\ Len(scans) <= 3
        /\ \A k \in DOMAIN scans :
              KindRank(RangeKind(scans[k].start)) = k /\ scans[k].range = k
        /\ \A i, j \in DOMAIN log :
              i < j => KindRank(RangeKind(log[i].start)) <= KindRank(RangeKind(log[j].start))
        /\ \A j \in DOMAIN log :
              log[j].ev = "visit" =>
                  /\ \E i \in 1 .. (j - 1) : IsScanEvent(log[i]) /\ log[i].range = log[j].range
                  /\ ~KeyLess(log[j].key, log[j].start)
                  /\ KeyLess(log[j].key, log[j].end)

\* a complete scan in which the visitor accepted entries of all three ranges
C3_Witness ==
    /\ pc = "done"
    /\ result.ok
    /\ \A kind \in {"local", "meta", "data"} :
          \E i \in DOMAIN log :
              log[i].ev = "visit" /\ log[i].res = Ok(TRUE) /\ RangeKind(log[i].start) = kind

\* C12: snap_scan_region on a region that is not initialized (empty end_key)
\* starts no range scan and hands no entry to the visitor.
C12_UninitializedNotScanned ==
    Len(region.end_key) = 0 => log = <<>>

\* the half-open range r holds no key at all
EmptyRange(r) == ~KeyLess(r[1], r[2])
\* two half-open ranges share no key
DisjointRanges(r1, r2) ==
    \/ EmptyRange(r1) \/ EmptyRange(r2)
    \/ ~KeyLess(r2[1], r1[2])
    \/ ~KeyLess(r1[1], r2[2])
\* p is a prefix of key k
HasPrefix(k, p) == Len(k) >= Len(p) /\ SubSeq(k, 1, Len(p)) = p

\* the three ranges are pairwise disjoint, the data range starts at or above
\* LOCAL_MAX, no key is handed to the visitor twice, and every key handed over
\* is a local key of this region id, the region's descriptor key, or a data
\* key of [start_key, end_key)
RangesPartition ==
    /\ \A i, j \in 1 .. 3 :
          i < j => DisjointRanges(region_key_ranges[i], region_key_ranges[j])
    /\ \/ EmptyRange(region_key_ranges[3])
       \/ ~KeyLess(region_key_ranges[3][1], LOCAL_MAX)
    /\ \A i, j \in DOMAIN log :
          (i < j /\ log[i].ev = "visit" /\ log[j].ev = "visit") => log[i].key # log[j].key
    /\ \A i \in DOMAIN log :
          log[i].ev = "visit" =>
              \/ HasPrefix(log[i].key, region_id_prefix(region.id))
              \/ log[i].key = region_meta_prefix(region.start_key)
              \/ /\ ~KeyLess(log[i].key, LOCAL_MAX)
                 /\ ~KeyLess(log[i].key, region.start_key)
                 /\ KeyLess(log[i].key, region.end_key)

\* C14 as stated: for an initialized region, whatever its start_key and
\* end_key, the three ranges snap_scan_region scans are pairwise disjoint and
\* the data range holds no key below LOCAL_MAX; no key is handed to the
\* visitor twice, and every key handed over is the region's own.
C14_RangesPartition ==
    (Len(region.end_key) > 0 /\ region_key_ranges # Panic) => RangesPartition

\* C14 amended: the same for an initialized region whose start_key is the
\* minimum key or is not below LOCAL_MAX; for every other start_key the data
\* range starts at start_key itself, inside the reserved namespaces.
C14_RangesPartitionAboveLocal ==
    (Len(region.end_key) > 0 /\ region_key_ranges # Panic) =>
        /\ (region.start_key = MIN_KEY \/ ~KeyLess(region.start_key, LOCAL_MAX)) =>
              RangesPartition
        /\ region.start_key # MIN_KEY => region_key_ranges[3][1] = region.start_key
        /\ region.start_key = MIN_KEY => region_key_ranges[3][1] = LOCAL_MAX

\* a complete scan of a region that starts at the minimum key, with entries of
\* all three ranges handed over
C14_Witness ==
    /\ pc = "done"
    /\ result.ok
    /\ region.start_key = MIN_KEY
    /\ Len(region.end_key) > 0
    /\ \A kind \in {"local", "meta", "data"} :
          \E i \in DOMAIN log : log[i].ev = "visit" /\ RangeKind(log[i].start) = kind
    /\ \A i \in DOMAIN log : log[i].ev = "visit" => log[i].res = Ok(TRUE)

\* the keys handed to the visitor during the scan of range r, in order
VisitedKeys(r) ==
    LET InRangeR(e) == e.ev = "visit" /\ e.range = r
        sel == SelectSeq(log, InRangeR)
    IN  [i \in 1 .. Len(sel) |-> sel[i].key]
IsPrefix(p, q) == Len(p) <= Len(q) /\ SubSeq(q, 1, Len(p)) = p
\* the scan of range r ran to the end of the range
ScannedToEnd(r) ==
    /\ \E i \in DOMAIN log : log[i].ev = "scan" /\ log[i].range = r /\ log[i].res.ok
    /\ \/ pc = "loop" /\ ri > r
       \/ pc = "scan" /\ ri > r
       \/ pc = "done" /\ result.ok
    /\ \A i \in DOMAIN log : log[i].range = r => ~IsStop(log[i])

\* C16: all three ranges are read from the snapshot the caller took: the
\* snapshot is what the engine held when it was taken and does not change
\* afterwards, every entry handed to the visitor is the snapshot's entry, the
\* keys handed over for a range are the snapshot's keys of that range in order
\* (all of them when the range was scanned to its end), whatever writers have
\* done to the live engine meanwhile.
C16_ScanReadsSnapshot ==
    /\ [](\A i \in DOMAIN log :
            log[i].ev = "visit" =>
                log[i].value # None /\ log[i].value = snap[log[i].key])
    /\ [](\A r \in 1 .. 3 :
            LET held == scan_keys(snap, region_key_ranges[r][1], region_key_ranges[r][2])
            IN  /\ IsPrefix(VisitedKeys(r), held)
                /\ ScannedToEnd(r) => VisitedKeys(r) = held)
    /\ [][ /\ (pc = "idle" /\ pc' # "idle") => snap' = engine
           /\ pc # "idle" => snap' = snap ]_vars

\* a complete scan whose visitor was handed a value the live engine no longer
\* holds, while the live engine holds a key of the first range the snapshot lacks
C16_Witness ==
    /\ pc = "done"
    /\ result.ok
    /\ \A r \in 1 .. 3 : ScannedToEnd(r)
    /\ \E i \in DOMAIN log :
          log[i].ev = "visit" /\ engine[log[i].key] # log[i].value
    /\ \E k \in RaftKeys(region.id) : engine[k] # None /\ snap[k] = None

\* what a scan of this replica's three ranges hands over from the view db
ScanView(db) ==
    IF region_key_ranges = Panic THEN Panic
    ELSE [r \in 1 .. 3 |->
            LET ks == scan_keys(db, region_key_ranges[r][1], region_key_ranges[r][2])
            IN  [i \in 1 .. Len(ks) |-> <<ks[i], db[ks[i]]>>]]
LoadKeys ==
    {raft_truncated_state_key(region_id), raft_last_index_key(region_id),
     raft_applied_index_key(region_id)}

TsKey == raft_truncated_state_key(region.id)
LastKey == raft_last_index_key(region.id)
AppliedKey == raft_applied_index_key(region.id)
LoadOps == {"load_truncated_state", "load_last_index", "load_applied_index"}

\* C4: get_truncated_state and get_first_index are decided by the cached field
\* alone: while it is absent both fail with the uninitialized-state error (also
\* when a loaded value waits to be installed); once a value is installed the
\* first returns exactly it and the second its index + 1, whatever the engine
\* holds; index + 1 is the number after index, which the u64 sum is only when
\* the addition does not overflow.
C4_LoadThenUse ==
    /\ ret.op = "get_truncated_state" =>
          ret.res = IF truncated_state = None THEN Err(UNINIT_ERR)
                    ELSE Ok(truncated_state[1])
    /\ (ret.op = "get_first_index" /\ truncated_state = None) =>
          ret.res = Err(UNINIT_ERR)
    /\ (ret.op = "get_first_index" /\ truncated_state # None) =>
          LET next == u64_add_one(truncated_state[1].index)
          IN  ~next.overflow /\ ret.res = Ok(next.val)

\* C5 as stated: after a successful load_truncated_state the cached field holds
\* the returned value.
C5_LoadFillsField ==
    (ret.op = "load_truncated_state" /\ ret.res.ok) =>
        truncated_state = Some(Val(ret.res))

\* C5 amended: load_truncated_state leaves the cached field as it was; the field
\* changes only when the caller installs a loaded value (or the replica is
\* constructed anew), an installed value is not lost to any call or write, and
\* a get_truncated_state that follows returns the installed value.
C5_InstallFillsField ==
    [][ /\ ret'.op = "load_truncated_state" => truncated_state' = truncated_state
        /\ truncated_state' # truncated_state =>
              \/ ret'.op = "install" /\ loaded # None /\ truncated_state' = loaded
              \/ ret'.op = "new" /\ truncated_state' = None
        /\ (ret'.op = "get_truncated_state" /\ truncated_state # None) =>
              ret'.res = Ok(truncated_state[1])
      ]_vars

\* an installed value is still the one returned after compaction persisted a newer one
C5_Witness ==
    /\ ret.op = "get_truncated_state"
    /\ ret.res.ok
    /\ engine[TsKey] # None
    /\ engine[TsKey] # Some(Val(ret.res))

\* C6: load_truncated_state returns the record persisted under the region id's
\* truncated-state key unchanged when there is one, whatever end_key is;
\* otherwise (10, 5) for a region with a non-empty end_key and (0, 0) for one
\* with an empty end_key.
C6_LoadTruncatedState ==
    (ret.op = "load_truncated_state" /\ ret.fault = NoFault) =>
        ret.res = IF engine[TsKey] # None THEN Ok(engine[TsKey][1])
                  ELSE IF region.end_key # <<>> THEN Ok(TruncatedState(U64(10), U64(5)))
                  ELSE Ok(TruncatedState(U64(0), U64(0)))

\* a record written for a region with an empty end_key was read back
C6_Witness ==
    /\ ret.op = "load_truncated_state"
    /\ region.end_key = <<>>
    /\ engine[TsKey] # None
    /\ ret.res = Ok(engine[TsKey][1])

\* C7: load_last_index returns the persisted last index when there is one,
\* installed truncated state or not; otherwise the index of the cached
\* truncated state itself, or the uninitialized-state error when none is
\* installed; 10 for an initialized region with nothing persisted whose loaded
\* default is installed.
C7_LoadLastIndex ==
    /\ (ret.op = "load_last_index" /\ ret.fault = NoFault) =>
          ret.res = IF engine[LastKey] # None THEN Ok(engine[LastKey][1])
                    ELSE IF truncated_state = None THEN Err(UNINIT_ERR)
                    ELSE Ok(truncated_state[1].index)
    /\ ( /\ ret.op = "load_last_index"
         /\ ret.fault = NoFault
         /\ region.end_key # <<>>
         /\ engine[LastKey] = None
         /\ engine[TsKey] = None
         /\ truncated_state = Some(TruncatedState(U64(10), U64(5))) ) =>
          ret.res = Ok(U64(10))

\* the fallback was taken for an initialized region whose default is installed
C7_Witness ==
    /\ ret.op = "load_last_index"
    /\ region.end_key # <<>>
    /\ engine[LastKey] = None
    /\ truncated_state = Some(TruncatedState(U64(10), U64(5)))
    /\ ret.res = Ok(U64(10))

\* C8: load_applied_index is decided by the supplied view and by whether the
\* region is initialized: the view's read error unchanged, else the view's
\* applied index of this region id, else 10 (initialized) or 0 (uninitialized).
C8_LoadAppliedIndex ==
    ret.op = "load_applied_index" =>
        ret.res = IF ret.fault # NoFault THEN Err(ret.fault)
                  ELSE IF ret.view[AppliedKey] # None THEN Ok(ret.view[AppliedKey][1])
                  ELSE IF region.end_key # <<>> THEN Ok(U64(10))
                  ELSE Ok(U64(0))

\* the view's value was returned while the committed engine holds another or none
C8_Witness ==
    /\ ret.op = "load_applied_index"
    /\ ret.view[AppliedKey] # None
    /\ ret.view[AppliedKey] # engine[AppliedKey]
    /\ ret.res = Ok(ret.view[AppliedKey][1])

\* C9: a load_* call, successful, defaulted or failed, changes neither the
\* engine nor a field of the replica metadata, and the same load repeated at
\* once returns the same result.
C9_LoadsWriteNothing ==
    [][ ret'.op \in LoadOps =>
          /\ engine' = engine
          /\ <<region_id, region, last_index, applied_index, truncated_state>>' =
                <<region_id, region, last_index, applied_index, truncated_state>>
          /\ (ret.op = ret'.op /\ ret.fault = ret'.fault /\ ret.view = ret'.view) =>
                ret'.res = ret.res
      ]_vars

\* a default truncated state was synthesized and the engine still holds no record
C9_Witness ==
    /\ ret.op = "load_truncated_state"
    /\ ret.res.ok
    /\ engine[TsKey] = None
    /\ truncated_state = None

\* C10: once the three values are resolved (the truncated state load_truncated_state
\* returns is installed, the applied index is load_applied_index's of either
\* view, the last index is load_last_index's), they are ordered,
\* truncated_state.index <= applied_index <= last_index, whichever of the
\* three records are persisted and whichever defaulted, in every state the
\* writers reach.
C10_ResolvedOrder ==
    (truncated_state # None /\ truncated_state = Some(Val(load_truncated_state(NoFault)))) =>
        \A db \in Views :
            LET applied == load_applied_index(db, NoFault)
                last == load_last_index(NoFault)
            IN  /\ applied.ok /\ last.ok
                /\ U64Leq(truncated_state[1].index, Val(applied))
                /\ U64Leq(Val(applied), Val(last))

\* C11 as stated: a successful get_first_index equals
\* load_truncated_state().index + 1 of the same state, also after compaction
\* persisted a newer truncated state than the cached one.
C11_FirstIndexTracksEngine ==
    (ret.op = "get_first_index" /\ ret.res.ok) =>
        LET next == u64_add_one(Val(load_truncated_state(NoFault)).index)
        IN  ~next.overflow /\ Val(ret.res) = next.val

\* C11 amended: a successful get_first_index is the u64 sum of the cached
\* truncated index and 1, which is 0 at the largest index (in a release build;
\* a debug build panics there, so the call does not succeed).  It equals
\* load_truncated_state().index + 1 whenever the installed truncated state is
\* the one load_truncated_state returns in that state (defaulted or persisted)
\* and its index is not the largest; when compaction persisted a newer one
\* that is not installed yet, the cached index is below the persisted one.
C11_FirstIndexOfInstalled ==
    (ret.op = "get_first_index" /\ ret.res.ok) =>
        LET state == Val(load_truncated_state(NoFault))
            cached == truncated_state[1]
            next == u64_add_one(cached.index)
        IN  /\ Val(ret.res) = next.val
            /\ next.overflow => build = "release" /\ Val(ret.res) = U64(0)
            /\ (cached = state /\ cached.index # U64_MAX) =>
                  /\ Val(ret.res) = u64_add_one(state.index).val
                  /\ U64Less(state.index, Val(ret.res))
            /\ cached # state =>
                  /\ U64Less(cached.index, state.index)
                  /\ U64Leq(Val(ret.res), state.index)

\* the first index of an installed truncated state that is the persisted one
C11_Witness ==
    /\ ret.op = "get_first_index"
    /\ ret.res.ok
    /\ engine[TsKey] # None
    /\ truncated_state = engine[TsKey]
    /\ Val(ret.res) = u64_add_one(engine[TsKey][1].index).val
    /\ ~u64_add_one(engine[TsKey][1].index).overflow

\* C18: with a truncated state installed and no last index persisted,
\* load_last_index is get_first_index - 1: the last index reported is below
\* the first index reported.
C18_LastBelowFirst ==
    (truncated_state # None /\ engine[LastKey] = None) =>
        LET last == load_last_index(NoFault)
            first == get_first_index
        IN  /\ last.ok /\ first.ok
            /\ Val(first) = u64_add_one(Val(last)).val
            /\ U64Less(Val(last), Val(first))

====
